---- MODULE Spec2Model ----
(***************************************************************************)
(* Light-cycle arena (NEON CYCLE): the Game component's match engine       *)
(* (initGame, startGame, setGameMode, handleKeyDown/registerTurn, loop,    *)
(* updateGame) and the pure helpers of utils/gameLogic (getNextPosition,   *)
(* checkCollision, floodFillCount, getAIMove, getWalkerMove).              *)
(***************************************************************************)
EXTENDS Integers, Sequences, FiniteSets, TLC

(***************************************************************************)
(* Bounds.  The shipped configuration is a 60x40 grid with 5 walkers and   *)
(* an 80 ms tick; the model keeps the code and scales the configuration.   *)
(* A session is explored up to MaxBudget optional events: a walker in the   *)
(* arena counts WalkerCost, every queued turn and every rematch counts 1;   *)
(* key presses that queue nothing, frames and mode changes are not limited. *)
(***************************************************************************)
GridWidth == 5
GridHeight == 2
MaxBudget == 4

\* Budget units one walker takes.
WalkerCost == MaxBudget - 1

(***************************************************************************)
(* Program constants.                                                      *)
(***************************************************************************)
UP == 0
RIGHT == 1
DOWN == 2
LEFT == 3
WALKER_SPEED_MOD == 2
QueueLimit == 2
FloodDepth == 20

Dirs == {UP, RIGHT, DOWN, LEFT}

\* config.speed, in frame-time units (80 ms in INITIAL_CONFIG): a tick is
\* admitted once the time since the last admitted tick is at least this much.
speed == 2

P1_START_POS == [x |-> GridWidth \div 6, y |-> GridHeight \div 2]
P2_START_POS == [x |-> (5 * GridWidth) \div 6, y |-> GridHeight \div 2]

\* Horizontal clearance of a walker spawn from both start columns
\* (5 columns on the 60-wide grid).
SpawnClear == GridWidth \div 12

Abs(n) == IF n < 0 THEN -n ELSE n

VARIABLES
    status,        \* React state `status`
    shownStatus,   \* `status` as captured by the closures of the last render
    mode,          \* React state `mode`
    winner,        \* React state `winner`
    scores,        \* React state `scores`
    players,       \* playersRef.current
    walkers,       \* walkersRef.current
    inputQueue,    \* inputQueueRef.current
    isGameOver,    \* isGameOverRef.current
    sinceLast,     \* time of the last frame callback minus lastTimeRef.current
    newDir,        \* last value returned by getAIMove in updateGame
    tickCount,     \* history: ticks admitted in the current match
    budget,        \* history: optional events left to this session
    scoreChanges,  \* history: frame callbacks of this match that changed scores
    walkerCount,   \* WALKER_COUNT of this session's configuration
    enteredFrom,   \* history: status when startGame last ran
    floodArgs,     \* arguments of a direct call of floodFillCount
    floodResult,   \* what that call returned
    arena,         \* config.gridWidth and config.gridHeight of a walkers-only run
    deltaTime      \* history: deltaTime of the last frame callback that got past
                   \* the status test

vars == <<status, shownStatus, mode, winner, scores, players, walkers,
          inputQueue, isGameOver, sinceLast, newDir, tickCount, budget,
          scoreChanges, walkerCount, enteredFrom, floodArgs, floodResult,
          arena, deltaTime>>

NoDir == -1
NoCall == "none"
NoResult == -1
NoWinner == "null"

(***************************************************************************)
(* utils/gameLogic                                                         *)
(***************************************************************************)
getNextPosition(head, direction) ==
    CASE direction = UP    -> [x |-> head.x, y |-> head.y - 1]
      [] direction = DOWN  -> [x |-> head.x, y |-> head.y + 1]
      [] direction = LEFT  -> [x |-> head.x - 1, y |-> head.y]
      [] direction = RIGHT -> [x |-> head.x + 1, y |-> head.y]

OutOfBounds(pos, width, height) ==
    pos.x < 0 \/ pos.x >= width \/ pos.y < 0 \/ pos.y >= height

\* Variant: the right and bottom walls are tested with > instead of >=.
checkCollisionLateWall(pos, width, height, ps) ==
    \/ pos.x < 0 \/ pos.x > width \/ pos.y < 0 \/ pos.y > height
    \/ \E i \in DOMAIN ps : \E j \in DOMAIN ps[i].trail : ps[i].trail[j] = pos

\* Variant: the newest trail segment of each player is not tested.
checkCollisionSkipLast(pos, width, height, ps) ==
    \/ OutOfBounds(pos, width, height)
    \/ \E i \in DOMAIN ps :
          \E j \in 1..(Len(ps[i].trail) - 1) : ps[i].trail[j] = pos

checkCollision(pos, width, height, ps) ==
    \/ OutOfBounds(pos, width, height)
    \/ \E i \in DOMAIN ps : \E j \in DOMAIN ps[i].trail : ps[i].trail[j] = pos

Neighbors(curr) ==
    << [x |-> curr.x + 1, y |-> curr.y],
       [x |-> curr.x - 1, y |-> curr.y],
       [x |-> curr.x, y |-> curr.y + 1],
       [x |-> curr.x, y |-> curr.y - 1] >>

SeqRange(s) == {s[i] : i \in DOMAIN s}

\* Variant: the loop runs while steps <= depth * 5.
floodContinueLateCap(st, depth) ==
    Len(st.queue) > 0 /\ st.steps <= depth * 5

\* while (queue.length > 0 && steps < depth * 5)
floodContinue(st, depth) ==
    Len(st.queue) > 0 /\ st.steps < depth * 5

\* One iteration of the while loop.
floodStep(st, width, height, obstacles) ==
    LET curr == Head(st.queue)
        Fresh(n) == /\ ~OutOfBounds(n, width, height)
                    /\ n \notin obstacles
                    /\ n \notin st.visited
        added == SelectSeq(Neighbors(curr), Fresh)
    IN  [queue |-> Tail(st.queue) \o added,
         visited |-> st.visited \cup SeqRange(added),
         count |-> st.count + 1,
         steps |-> st.steps + 1]

\* The while loop, run until its condition fails.  n is any number the
\* iterations cannot exceed; the run is split in halves to keep the
\* evaluation shallow.
RECURSIVE floodLoop(_, _, _, _, _, _)
floodLoop(n, st, width, height, obstacles, depth) ==
    IF ~floodContinue(st, depth) THEN st
    ELSE IF n <= 1 THEN floodStep(st, width, height, obstacles)
    ELSE floodLoop(n - n \div 2,
                   floodLoop(n \div 2, st, width, height, obstacles, depth),
                   width, height, obstacles, depth)

\* Every cell enters the queue at most once, after the start.
floodFillCount(start, width, height, obstacles, depth) ==
    floodLoop(width * height + 1,
              [queue |-> <<start>>, visited |-> {start}, count |-> 0,
               steps |-> 0],
              width, height, obstacles, depth).count

Obstacles(ps) ==
    UNION {SeqRange(ps[i].trail) \cup {ps[i].head} : i \in DOMAIN ps}

\* The three candidates in declaration order: straight, left, right.
PossibleMoves(currentDir) ==
    << currentDir, (currentDir + 3) % 4, (currentDir + 1) % 4 >>

Lethal(pos, width, height, obstacles) ==
    OutOfBounds(pos, width, height) \/ pos \in obstacles

\* Marks a candidate the loop of getAIMove skips (continue).
Skipped == -2

\* What the loop of getAIMove computes for each candidate, in declaration
\* order; it does not depend on the shuffle.
candidateSpaces(aiPlayer, ps, width, height) ==
    LET moves == PossibleMoves(aiPlayer.direction)
        obstacles == Obstacles(ps)
        spaceOf(k) ==
            LET nextPos == getNextPosition(aiPlayer.head, moves[k])
            IN  IF Lethal(nextPos, width, height, obstacles) THEN Skipped
                ELSE floodFillCount(nextPos, width, height, obstacles,
                                    FloodDepth)
    IN  << spaceOf(1), spaceOf(2), spaceOf(3) >>

\* Variant: the search starts from maxSpace = 1 instead of -1.
aiChooseHighStart(currentDir, spaces, shuffle) ==
    LET moves == PossibleMoves(currentDir)
        Consider(acc, k) ==
            IF spaces[k] = Skipped THEN acc
            ELSE IF spaces[k] > acc.maxSpace
                 THEN [bestMove |-> moves[k], maxSpace |-> spaces[k]]
                 ELSE acc
        a0 == [bestMove |-> currentDir, maxSpace |-> 1]
    IN  Consider(Consider(Consider(a0, shuffle[1]), shuffle[2]),
                 shuffle[3]).bestMove

\* Variant: bestMove starts as the first candidate of the shuffled order.
aiChooseFirstShuffled(currentDir, spaces, shuffle) ==
    LET moves == PossibleMoves(currentDir)
        Consider(acc, k) ==
            IF spaces[k] = Skipped THEN acc
            ELSE IF spaces[k] > acc.maxSpace
                 THEN [bestMove |-> moves[k], maxSpace |-> spaces[k]]
                 ELSE acc
        a0 == [bestMove |-> moves[shuffle[1]], maxSpace |-> -1]
    IN  Consider(Consider(Consider(a0, shuffle[1]), shuffle[2]),
                 shuffle[3]).bestMove

\* Variant: a candidate with an equal count also replaces the best move.
aiConsiderLastTie(acc, k, moves, spaces) ==
    IF spaces[k] = Skipped THEN acc
    ELSE IF spaces[k] >= acc.maxSpace
         THEN [bestMove |-> moves[k], maxSpace |-> spaces[k]]
         ELSE acc

\* One iteration of the candidate loop of getAIMove.
aiConsider(acc, k, moves, spaces) ==
    IF spaces[k] = Skipped THEN acc
    ELSE IF spaces[k] > acc.maxSpace
         THEN [bestMove |-> moves[k], maxSpace |-> spaces[k]]
         ELSE acc

\* The candidate loop, over the order possibleMoves.sort left.
aiChoose(currentDir, spaces, shuffle) ==
    LET moves == PossibleMoves(currentDir)
        a0 == [bestMove |-> currentDir, maxSpace |-> -1]
        a1 == aiConsider(a0, shuffle[1], moves, spaces)
        a2 == aiConsider(a1, shuffle[2], moves, spaces)
        a3 == aiConsider(a2, shuffle[3], moves, spaces)
    IN  a3.bestMove

Shuffles ==
    {s \in [1..3 -> 1..3] : \A i, j \in 1..3 : s[i] = s[j] => i = j}

getAIMove(aiPlayer, ps, width, height, shuffle) ==
    aiChoose(aiPlayer.direction,
             candidateSpaces(aiPlayer, ps, width, height), shuffle)

\* Every value Math.random can make getAIMove return.
getAIMoves(aiPlayer, ps, width, height) ==
    LET spaces == candidateSpaces(aiPlayer, ps, width, height)
    IN  {aiChoose(aiPlayer.direction, spaces, shuffle) : shuffle \in Shuffles}

ValidMoves(currentPos, width, height) ==
    SelectSeq(Neighbors(currentPos),
              LAMBDA m : ~OutOfBounds(m, width, height))

\* pick: 1 + Math.floor(Math.random() * validMoves.length)
getWalkerMove(currentPos, width, height, pick) ==
    LET validMoves == ValidMoves(currentPos, width, height)
    IN  IF Len(validMoves) = 0 THEN currentPos ELSE validMoves[pick]

(***************************************************************************)
(* components/Game                                                         *)
(***************************************************************************)
\* Variant: a new player starts with an empty trail.
NewPlayerNoTrail(id, name, start, direction) ==
    [id |-> id, name |-> name, head |-> start, trail |-> <<>>,
     direction |-> direction, isDead |-> FALSE]

NewPlayer(id, name, start, direction) ==
    [id |-> id, name |-> name, head |-> start, trail |-> <<start>>,
     direction |-> direction, isDead |-> FALSE]

\* Variant: every cell of the grid is accepted.
SpawnCellsAnywhere ==
    [x : 0..(GridWidth - 1), y : 0..(GridHeight - 1)]

\* The while loop of initGame accepts exactly these walker positions.
SpawnCells ==
    {pos \in [x : 0..(GridWidth - 1), y : 0..(GridHeight - 1)] :
        /\ Abs(pos.x - P1_START_POS.x) > SpawnClear
        /\ Abs(pos.x - P2_START_POS.x) > SpawnClear}

Spawns ==
    [1..walkerCount -> [position : SpawnCells,
                       moveTimer : 0..(WALKER_SPEED_MOD - 1)]]

Init ==
    /\ status = "MENU"
    /\ shownStatus = "MENU"
    /\ mode = "PVE"
    /\ winner = NoWinner
    /\ scores = [p1 |-> 0, p2 |-> 0]
    /\ players = <<>>
    /\ walkers = <<>>
    /\ inputQueue = [i \in 1..2 |-> <<>>]
    /\ isGameOver = FALSE
    /\ sinceLast = 0
    /\ newDir = NoDir
    /\ tickCount = 0
    /\ scoreChanges = 0
    /\ walkerCount \in 0..(MaxBudget \div WalkerCost)
    /\ budget = MaxBudget - walkerCount * WalkerCost
    /\ enteredFrom = "none"
    /\ floodArgs = NoCall
    /\ floodResult = NoResult
    /\ arena = NoCall
    /\ deltaTime = 0

\* Variant: isGameOverRef is not cleared.
initGameKeepFlag(newWalkers) ==
    /\ players' = << NewPlayer(1, "Player 1", P1_START_POS, RIGHT),
                     NewPlayer(2, IF mode = "PVE" THEN "CPU" ELSE "Player 2",
                               P2_START_POS, LEFT) >>
    /\ walkers' = newWalkers
    /\ inputQueue' = [i \in 1..2 |-> <<>>]
    /\ isGameOver' = isGameOver
    /\ winner' = NoWinner

initGame(newWalkers) ==
    /\ players' = << NewPlayer(1, "Player 1", P1_START_POS, RIGHT),
                     NewPlayer(2, IF mode = "PVE" THEN "CPU" ELSE "Player 2",
                               P2_START_POS, LEFT) >>
    /\ walkers' = newWalkers
    /\ inputQueue' = [i \in 1..2 |-> <<>>]
    /\ isGameOver' = FALSE
    /\ winner' = NoWinner

\* Variant: starting a match also clears the score tally.
startGameClearScores ==
    /\ shownStatus \in {"MENU", "GAME_OVER"}
    /\ players # <<>> => budget > 0
    /\ \E newWalkers \in Spawns : initGame(newWalkers)
    /\ status' = "PLAYING"
    /\ shownStatus' = "PLAYING"
    /\ newDir' = NoDir
    /\ tickCount' = 0
    /\ budget' = IF players # <<>> THEN budget - 1 ELSE budget
    /\ scoreChanges' = 0
    /\ enteredFrom' = status
    /\ scores' = [p1 |-> 0, p2 |-> 0]
    /\ UNCHANGED <<mode, sinceLast, walkerCount, floodArgs, floodResult,
                   arena, deltaTime>>

\* START ENGINE (menu overlay) and REMATCH (game-over overlay).
startGame ==
    /\ shownStatus \in {"MENU", "GAME_OVER"}
    /\ players # <<>> => budget > 0
    /\ \E newWalkers \in Spawns : initGame(newWalkers)
    /\ status' = "PLAYING"
    /\ shownStatus' = "PLAYING"
    /\ newDir' = NoDir
    /\ tickCount' = 0
    /\ budget' = IF players # <<>> THEN budget - 1 ELSE budget
    /\ scoreChanges' = 0
    /\ enteredFrom' = status
    /\ UNCHANGED <<mode, scores, sinceLast, walkerCount, floodArgs,
                   floodResult,
                   arena, deltaTime>>

setGameMode(m) ==
    /\ shownStatus = "MENU"
    /\ mode' = m
    /\ scores' = [p1 |-> 0, p2 |-> 0]
    /\ UNCHANGED <<status, shownStatus, winner, players, walkers, inputQueue,
                   isGameOver, sinceLast, newDir, tickCount, budget,
                   scoreChanges, walkerCount, enteredFrom,
                   floodArgs, floodResult,
                   arena, deltaTime>>

\* MENU button of the game-over overlay.
backToMenu ==
    /\ shownStatus = "GAME_OVER"
    /\ status' = "MENU"
    /\ shownStatus' = "MENU"
    /\ UNCHANGED <<mode, winner, scores, players, walkers, inputQueue,
                   isGameOver, sinceLast, newDir, tickCount, budget,
                   scoreChanges, walkerCount, enteredFrom,
                   floodArgs, floodResult,
                   arena, deltaTime>>

\* React commits the state set from the frame callback: the closures of loop
\* and handleKeyDown are re-created with the new status.
render ==
    /\ shownStatus # status
    /\ shownStatus' = status
    /\ UNCHANGED <<status, mode, winner, scores, players, walkers, inputQueue,
                   isGameOver, sinceLast, newDir, tickCount, budget,
                   scoreChanges, walkerCount, enteredFrom,
                   floodArgs, floodResult,
                   arena, deltaTime>>

\* Variant: the queue is full only beyond four entries.
registerTurnLooseCap(queues, ps, playerId, turn) ==
    LET queue == queues[playerId]
        lastDir == IF Len(queue) > 0 THEN queue[Len(queue)]
                   ELSE ps[playerId].direction
        turned == IF turn = "left" THEN (lastDir + 3) % 4
                  ELSE IF turn = "right" THEN (lastDir + 1) % 4
                  ELSE lastDir
    IN  IF Len(queue) > QueueLimit + 1 THEN queues
        ELSE IF turned # lastDir
             THEN [queues EXCEPT ![playerId] = Append(queue, turned)]
             ELSE queues

\* Variant: a turn back to the live facing is dropped.
registerTurnDropBack(queues, ps, playerId, turn) ==
    LET queue == queues[playerId]
        lastDir == IF Len(queue) > 0 THEN queue[Len(queue)]
                   ELSE ps[playerId].direction
        turned == IF turn = "left" THEN (lastDir + 3) % 4
                  ELSE IF turn = "right" THEN (lastDir + 1) % 4
                  ELSE lastDir
    IN  IF Len(queue) > QueueLimit THEN queues
        ELSE IF turned # lastDir /\ turned # ps[playerId].direction
             THEN [queues EXCEPT ![playerId] = Append(queue, turned)]
             ELSE queues

\* Variant: a left turn adds 2 instead of 3.
registerTurnUTurn(queues, ps, playerId, turn) ==
    LET queue == queues[playerId]
        lastDir == IF Len(queue) > 0 THEN queue[Len(queue)]
                   ELSE ps[playerId].direction
        turned == IF turn = "left" THEN (lastDir + 2) % 4
                  ELSE IF turn = "right" THEN (lastDir + 1) % 4
                  ELSE lastDir
    IN  IF Len(queue) > QueueLimit THEN queues
        ELSE IF turned # lastDir
             THEN [queues EXCEPT ![playerId] = Append(queue, turned)]
             ELSE queues

registerTurn(queues, ps, playerId, turn) ==
    LET queue == queues[playerId]
        lastDir == IF Len(queue) > 0 THEN queue[Len(queue)]
                   ELSE ps[playerId].direction
        turned == IF turn = "left" THEN (lastDir + 3) % 4
                  ELSE IF turn = "right" THEN (lastDir + 1) % 4
                  ELSE lastDir
    IN  IF Len(queue) > QueueLimit THEN queues
        ELSE IF turned # lastDir
             THEN [queues EXCEPT ![playerId] = Append(queue, turned)]
             ELSE queues

Keys == {"KeyA", "KeyD", "ArrowLeft", "ArrowRight"}

KeyEffect(queues, ps, code) ==
    LET q1 == IF code = "KeyA" THEN registerTurn(queues, ps, 1, "left")
              ELSE IF code = "KeyD" THEN registerTurn(queues, ps, 1, "right")
              ELSE queues
    IN  IF mode = "PVP"
        THEN IF code = "ArrowLeft" THEN registerTurn(q1, ps, 2, "left")
             ELSE IF code = "ArrowRight" THEN registerTurn(q1, ps, 2, "right")
             ELSE q1
        ELSE q1

handleKeyDown(code) ==
    /\ inputQueue' = IF shownStatus # "PLAYING" THEN inputQueue
                     ELSE KeyEffect(inputQueue, players, code)
    /\ inputQueue' # inputQueue => budget > 0
    /\ budget' = IF inputQueue' # inputQueue THEN budget - 1 ELSE budget
    /\ UNCHANGED <<status, shownStatus, mode, winner, scores, players, walkers,
                   isGameOver, sinceLast, newDir, tickCount, scoreChanges,
                   walkerCount, enteredFrom,
                   floodArgs, floodResult,
                   arena, deltaTime>>

(***************************************************************************)
(* updateGame, one operator per numbered step of the source.               *)
(***************************************************************************)
\* Variant: the whole queue is drained in one tick, the last entry applied.
processInputDrain(ps, queues, i) ==
    LET p == ps[i]
        queued == Len(queues[p.id]) > 0
        d1 == IF queued THEN queues[p.id][Len(queues[p.id])] ELSE p.direction
        p1 == [p EXCEPT !.direction = d1]
        ps1 == [ps EXCEPT ![i] = p1]
        q1 == [queues EXCEPT ![p.id] = <<>>]
    IN  IF p.isDead
        THEN {[players |-> ps, queues |-> queues, newDir |-> NoDir]}
        ELSE IF mode = "PVE" /\ p.id = 2
        THEN {[players |-> [ps1 EXCEPT ![i].direction = ai], queues |-> q1,
               newDir |-> ai] :
                 ai \in getAIMoves(p1, ps1, GridWidth, GridHeight)}
        ELSE {[players |-> ps1, queues |-> q1, newDir |-> NoDir]}

\* 1. Process Inputs and AI, for one player; earlier players of the forEach
\* are already updated in ps.  The set of outcomes, one per value getAIMove
\* can return.
processInput(ps, queues, i) ==
    LET p == ps[i]
        queued == Len(queues[p.id]) > 0
        d1 == IF queued THEN Head(queues[p.id]) ELSE p.direction
        p1 == [p EXCEPT !.direction = d1]
        ps1 == [ps EXCEPT ![i] = p1]
        q1 == IF queued THEN [queues EXCEPT ![p.id] = Tail(queues[p.id])]
              ELSE queues
    IN  IF p.isDead
        THEN {[players |-> ps, queues |-> queues, newDir |-> NoDir]}
        ELSE IF mode = "PVE" /\ p.id = 2
        THEN {[players |-> [ps1 EXCEPT ![i].direction = ai], queues |-> q1,
               newDir |-> ai] :
                 ai \in getAIMoves(p1, ps1, GridWidth, GridHeight)}
        ELSE {[players |-> ps1, queues |-> q1, newDir |-> NoDir]}

processInputs(ps, queues) ==
    UNION {processInput(r1.players, r1.queues, 2) :
              r1 \in processInput(ps, queues, 1)}

\* Variant: the walker moves once moveTimer exceeds WALKER_SPEED_MOD.
walkerStepLate(w, width, height, pick) ==
    IF w.moveTimer + 1 > WALKER_SPEED_MOD
    THEN [position |-> getWalkerMove(w.position, width, height, pick),
          moveTimer |-> 0]
    ELSE [w EXCEPT !.moveTimer = w.moveTimer + 1]

\* 2. Move Walkers: the body of walkers.forEach, on a width x height grid.
walkerStep(w, width, height, pick) ==
    IF w.moveTimer + 1 >= WALKER_SPEED_MOD
    THEN [position |-> getWalkerMove(w.position, width, height, pick),
          moveTimer |-> 0]
    ELSE [w EXCEPT !.moveTimer = w.moveTimer + 1]

moveWalker(w, pick) == walkerStep(w, GridWidth, GridHeight, pick)

moveWalkers(ws, picks) ==
    [k \in DOMAIN ws |-> moveWalker(ws[k], picks[k])]

\* The values Math.random can make getWalkerMove use, per walker.
PicksOn(ws, width, height) ==
    {picks \in [DOMAIN ws -> 1..4] :
        \A k \in DOMAIN ws :
            IF ws[k].moveTimer + 1 >= WALKER_SPEED_MOD
            THEN picks[k] <= Len(ValidMoves(ws[k].position, width, height))
                 \/ picks[k] = 1
            ELSE picks[k] = 1}

Picks(ws) == PicksOn(ws, GridWidth, GridHeight)

\* Variant: the new head, not the current one, is pushed onto the trail.
movePlayerPushNext(p) ==
    IF p.isDead THEN p
    ELSE [p EXCEPT !.trail = Append(p.trail,
                                    getNextPosition(p.head, p.direction)),
                   !.head = getNextPosition(p.head, p.direction)]

\* Variant: the head moves and the trail is left as it was.
movePlayerKeepTrail(p) ==
    IF p.isDead THEN p
    ELSE [p EXCEPT !.head = getNextPosition(p.head, p.direction)]

\* 3. Move Players
movePlayer(p) ==
    IF p.isDead THEN p
    ELSE [p EXCEPT !.trail = Append(p.trail, p.head),
                   !.head = getNextPosition(p.head, p.direction)]

movePlayers(ps) ==
    [i \in DOMAIN ps |-> movePlayer(ps[i])]

\* Variant: no head-to-head case.
deathsOfNoHeadOn(ps, ws, i) ==
    LET p == ps[i]
        wall == IF checkCollision(p.head, GridWidth, GridHeight, ps)
                THEN {p.id} ELSE {}
        walker == IF \E k \in DOMAIN ws : ws[k].position = p.head
                  THEN {p.id} ELSE {}
    IN  IF p.isDead THEN {} ELSE wall \cup walker

\* Variant: no walker check.
deathsOfNoWalker(ps, ws, i) ==
    LET p == ps[i]
        opp == {j \in DOMAIN ps : ps[j].id # p.id}
        wall == IF checkCollision(p.head, GridWidth, GridHeight, ps)
                THEN {p.id} ELSE {}
        headOn == IF \E j \in opp : /\ j = CHOOSE m \in opp : \A n \in opp : m <= n
                                    /\ ~ps[j].isDead
                                    /\ ps[j].head = p.head
                  THEN {p.id} \cup {ps[j].id : j \in {CHOOSE m \in opp :
                                                       \A n \in opp : m <= n}}
                  ELSE {}
    IN  IF p.isDead THEN {} ELSE wall \cup headOn

\* 4. Collision Detection: the ids pushed to deaths while player i is checked.
deathsOf(ps, ws, i) ==
    LET p == ps[i]
        opp == {j \in DOMAIN ps : ps[j].id # p.id}
        wall == IF checkCollision(p.head, GridWidth, GridHeight, ps)
                THEN {p.id} ELSE {}
        walker == IF \E k \in DOMAIN ws : ws[k].position = p.head
                  THEN {p.id} ELSE {}
        headOn == IF \E j \in opp : /\ j = CHOOSE m \in opp : \A n \in opp : m <= n
                                    /\ ~ps[j].isDead
                                    /\ ps[j].head = p.head
                  THEN {p.id} \cup {ps[j].id : j \in {CHOOSE m \in opp :
                                                       \A n \in opp : m <= n}}
                  ELSE {}
    IN  IF p.isDead THEN {} ELSE wall \cup walker \cup headOn

collectDeaths(ps, ws) ==
    UNION {deathsOf(ps, ws, i) : i \in DOMAIN ps}

\* Apply deaths
applyDeaths(ps, deaths) ==
    [i \in DOMAIN ps |->
        IF ps[i].id \in deaths THEN [ps[i] EXCEPT !.isDead = TRUE] ELSE ps[i]]

\* Variant: the dead are not filtered out.
alivePlayersAll(ps) == ps

alivePlayers(ps) ==
    SelectSeq(ps, LAMBDA p : ~p.isDead)

\* Variant: the winner's score key is always p1.
ScoreKeyFirst(id) == "p1"

ScoreKey(id) == IF id = 1 THEN "p1" ELSE "p2"

\* Variant: heads are tested against the walkers' positions before step 2.
finishTickOldWalkers(r1, ws, picks) ==
    LET ws2 == moveWalkers(ws, picks)
        ps3 == movePlayers(r1.players)
        deaths == collectDeaths(ps3, ws)
        ps5 == applyDeaths(ps3, deaths)
    IN  [players |-> ps5, walkers |-> ws2, queues |-> r1.queues,
         newDir |-> r1.newDir, deaths |-> deaths,
         alive |-> alivePlayers(ps5)]

\* Steps 2 to 5 and the alive filter, after step 1 left r1.
finishTick(r1, ws, picks) ==
    LET ws2 == moveWalkers(ws, picks)
        ps3 == movePlayers(r1.players)
        deaths == collectDeaths(ps3, ws2)
        ps5 == applyDeaths(ps3, deaths)
    IN  [players |-> ps5, walkers |-> ws2, queues |-> r1.queues,
         newDir |-> r1.newDir, deaths |-> deaths,
         alive |-> alivePlayers(ps5)]

\* Variant: updateGame without its early return.
gameOverGuardOff == FALSE

\* if (isGameOverRef.current) return;
gameOverGuard == isGameOver

updateGame ==
    IF gameOverGuard
    THEN UNCHANGED <<status, winner, scores, players, walkers, inputQueue,
                     isGameOver, newDir, tickCount>>
    ELSE \E r1 \in processInputs(players, inputQueue),
            picks \in Picks(walkers) :
           LET r == finishTick(r1, walkers, picks)
           IN  /\ players' = r.players
               /\ walkers' = r.walkers
               /\ inputQueue' = r.queues
               /\ newDir' = r.newDir
               /\ tickCount' = tickCount + 1
               /\ IF Len(r.alive) = 0
                  THEN /\ isGameOver' = TRUE
                       /\ winner' = "DRAW"
                       /\ status' = "GAME_OVER"
                       /\ scores' = scores
                  ELSE IF Len(r.alive) = 1
                  THEN /\ isGameOver' = TRUE
                       /\ winner' = r.alive[1].name
                       /\ status' = "GAME_OVER"
                       /\ scores' = [scores EXCEPT ![ScoreKey(r.alive[1].id)]
                                                     = @ + 1]
                  ELSE UNCHANGED <<isGameOver, winner, status, scores>>

\* Saturation of the modelled clock: every larger gap behaves like this one.
MaxGap == speed

Min(a, b) == IF a < b THEN a ELSE b

\* Variant: a tick is due only when the time exceeds config.speed.
tickDueStrict(gap) == gap > speed

\* if (deltaTime >= config.speed)
tickDue(gap) == gap >= speed

\* Variant: the time beyond one tick period is carried over.
sinceLastCarry(gap) == gap - speed

\* lastTimeRef.current = time: the time since the last admitted tick restarts.
sinceLastAfterTick(gap) == 0

\* The requestAnimationFrame callback, dt after the previous one.
loop(dt) ==
    /\ UNCHANGED <<shownStatus, mode, budget, walkerCount, enteredFrom,
                   floodArgs, floodResult, arena>>
    /\ IF shownStatus # "PLAYING"
       THEN /\ sinceLast' = Min(sinceLast + dt, MaxGap)
            /\ UNCHANGED <<status, winner, scores, players, walkers,
                           inputQueue, isGameOver, newDir, tickCount>>
       ELSE IF tickDue(sinceLast + dt)
       THEN /\ sinceLast' = sinceLastAfterTick(sinceLast + dt)
            /\ updateGame
       ELSE /\ sinceLast' = sinceLast + dt
            /\ UNCHANGED <<status, winner, scores, players, walkers,
                           inputQueue, isGameOver, newDir, tickCount>>
    /\ scoreChanges' = IF scores' # scores THEN scoreChanges + 1
                       ELSE scoreChanges

Next ==
    \/ startGame
    \/ \E m \in {"PVE", "PVP"} : setGameMode(m)
    \/ backToMenu
    \/ render
    \/ \E code \in Keys : handleKeyDown(code)
    \/ \E dt \in 1..speed : loop(dt) /\ UNCHANGED deltaTime

Spec == Init /\ [][Next]_vars

(***************************************************************************)
(* getAIMove on its own: every layout of at most MaxObstacles trail cells, *)
(* every head position and facing of the AI player.                        *)
(***************************************************************************)
MaxObstacles == 2

Cells == [x : 0..(GridWidth - 1), y : 0..(GridHeight - 1)]

RECURSIVE SetToSeq(_)
SetToSeq(S) ==
    IF S = {} THEN <<>>
    ELSE LET c == CHOOSE e \in S : TRUE
         IN  <<c>> \o SetToSeq(S \ {c})

\* The trails player 2 can have with head h and facing d: that of a new
\* player, or one that ends with the cell behind the head.
Trails2(T, h, d) ==
    {<<h>>} \cup
    {<<b>> : b \in {c \in Cells \ (T \cup {P1_START_POS}) :
                      c = getNextPosition(h, (d + 2) % 4)}}

Layout(T, h, d, t2) ==
    << [NewPlayer(1, "Player 1", P1_START_POS, RIGHT)
            EXCEPT !.trail = <<P1_START_POS>> \o SetToSeq(T)],
       [NewPlayer(2, "CPU", h, d) EXCEPT !.trail = t2] >>

InitAI ==
    /\ status = "PLAYING"
    /\ shownStatus = "PLAYING"
    /\ mode = "PVE"
    /\ winner = NoWinner
    /\ scores = [p1 |-> 0, p2 |-> 0]
    /\ \E T \in SUBSET (Cells \ {P1_START_POS}) :
          /\ Cardinality(T) <= MaxObstacles
          /\ \E h \in Cells \ (T \cup {P1_START_POS}), d \in Dirs :
                \E t2 \in Trails2(T, h, d) : players = Layout(T, h, d, t2)
    /\ walkers = <<>>
    /\ inputQueue = [i \in 1..2 |-> <<>>]
    /\ isGameOver = FALSE
    /\ sinceLast = 0
    /\ newDir = NoDir
    /\ tickCount = 0
    /\ budget = 0
    /\ scoreChanges = 0
    /\ walkerCount = 0
    /\ enteredFrom = "none"
    /\ floodArgs = NoCall
    /\ floodResult = NoResult
    /\ arena = NoCall
    /\ deltaTime = 0

\* const newDir = getAIMove(p, players, config.gridWidth, config.gridHeight)
aiDecide ==
    /\ newDir = NoDir
    /\ newDir' \in getAIMoves(players[2], players, GridWidth, GridHeight)
    /\ UNCHANGED <<status, shownStatus, mode, winner, scores, players, walkers,
                   inputQueue, isGameOver, sinceLast, tickCount, budget,
                   scoreChanges, walkerCount, enteredFrom,
                   floodArgs, floodResult,
                   arena, deltaTime>>

NextAI == aiDecide

SpecAI == InitAI /\ [][NextAI]_vars

(***************************************************************************)
(* floodFillCount on its own: every start and every set of at most          *)
(* MaxObstacles obstacles on the grid, with depth 0..MaxFloodDepth and the  *)
(* default depth, and on an arena of more than FloodDepth * 5 cells with    *)
(* at most one obstacle, where the default cap is reached.                  *)
(***************************************************************************)
MaxFloodDepth == 2
WideWidth == 51

ArenaCells(width, height) == [x : 0..(width - 1), y : 0..(height - 1)]

FloodCall(start, width, height, obstacles, depth) ==
    [start |-> start, width |-> width, height |-> height,
     obstacles |-> obstacles, depth |-> depth]

InitFlood ==
    /\ status = "MENU"
    /\ shownStatus = "MENU"
    /\ mode = "PVE"
    /\ winner = NoWinner
    /\ scores = [p1 |-> 0, p2 |-> 0]
    /\ players = <<>>
    /\ walkers = <<>>
    /\ inputQueue = [i \in 1..2 |-> <<>>]
    /\ isGameOver = FALSE
    /\ sinceLast = 0
    /\ newDir = NoDir
    /\ tickCount = 0
    /\ budget = 0
    /\ scoreChanges = 0
    /\ walkerCount = 0
    /\ enteredFrom = "none"
    /\ floodResult = NoResult
    /\ arena = NoCall
    /\ deltaTime = 0
    /\ \/ \E obstacles \in SUBSET ArenaCells(GridWidth, GridHeight) :
             /\ Cardinality(obstacles) <= MaxObstacles
             /\ \E start \in ArenaCells(GridWidth, GridHeight) \ obstacles,
                   depth \in (0..MaxFloodDepth) \cup {FloodDepth} :
                   floodArgs = FloodCall(start, GridWidth, GridHeight,
                                         obstacles, depth)
       \/ \E obstacles \in {{}} \cup {{c} : c \in ArenaCells(WideWidth,
                                                            GridHeight)} :
             \E start \in ArenaCells(WideWidth, GridHeight) \ obstacles :
                 floodArgs = FloodCall(start, WideWidth, GridHeight,
                                       obstacles, FloodDepth)

\* const space = floodFillCount(nextPos, width, height, obstacles, depth)
floodRun ==
    /\ floodResult = NoResult
    /\ floodResult' = floodFillCount(floodArgs.start, floodArgs.width,
                                     floodArgs.height, floodArgs.obstacles,
                                     floodArgs.depth)
    /\ UNCHANGED <<status, shownStatus, mode, winner, scores, players, walkers,
                   inputQueue, isGameOver, sinceLast, newDir, tickCount,
                   budget, scoreChanges, walkerCount, enteredFrom, floodArgs,
                   arena, deltaTime>>

NextFlood == floodRun

SpecFlood == InitFlood /\ [][NextFlood]_vars

(***************************************************************************)
(* One tick of updateGame from every such layout: the frame callback that  *)
(* arrives a full tick period after the last admitted tick.                *)
(***************************************************************************)
tickOnce ==
    /\ tickCount = 0
    /\ loop(speed)
    /\ UNCHANGED deltaTime

NextTick == tickOnce

SpecTick == InitAI /\ [][NextTick]_vars

(***************************************************************************)
(* Step 2 of updateGame on its own: up to MaxWalkers walkers anywhere on   *)
(* every grid from 1 x 1 to GridWidth x GridHeight, next to the players of *)
(* a new match, for MaxWalkTicks ticks.                                    *)
(***************************************************************************)
MaxWalkers == 2
MaxWalkTicks == 2

InitWalk ==
    /\ status = "PLAYING"
    /\ shownStatus = "PLAYING"
    /\ mode = "PVE"
    /\ winner = NoWinner
    /\ scores = [p1 |-> 0, p2 |-> 0]
    /\ players = << NewPlayer(1, "Player 1", P1_START_POS, RIGHT),
                    NewPlayer(2, "CPU", P2_START_POS, LEFT) >>
    /\ \E width \in 1..GridWidth, height \in 1..GridHeight :
          /\ arena = [width |-> width, height |-> height]
          /\ \E n \in 1..MaxWalkers :
                walkers \in [1..n -> [position : ArenaCells(width, height),
                                     moveTimer : 0..(WALKER_SPEED_MOD - 1)]]
    /\ inputQueue = [i \in 1..2 |-> <<>>]
    /\ isGameOver = FALSE
    /\ sinceLast = 0
    /\ newDir = NoDir
    /\ tickCount = 0
    /\ budget = 0
    /\ scoreChanges = 0
    /\ walkerCount = 0
    /\ enteredFrom = "none"
    /\ floodArgs = NoCall
    /\ floodResult = NoResult
    /\ deltaTime = 0

\* walkers.forEach(w => { w.moveTimer++; ... }) of one admitted tick.
walkTick ==
    /\ tickCount < MaxWalkTicks
    /\ \E picks \in PicksOn(walkers, arena.width, arena.height) :
          walkers' = [k \in DOMAIN walkers |->
                         walkerStep(walkers[k], arena.width, arena.height,
                                    picks[k])]
    /\ tickCount' = tickCount + 1
    /\ UNCHANGED <<status, shownStatus, mode, winner, scores, players,
                   inputQueue, isGameOver, sinceLast, newDir, budget,
                   scoreChanges, walkerCount, enteredFrom, floodArgs,
                   floodResult, arena, deltaTime>>

NextWalk == walkTick

SpecWalk == InitWalk /\ [][NextWalk]_vars

(***************************************************************************)
(* The frame clock on its own: one match without key presses,              *)
(* where a frame callback comes within a tick period of the previous one   *)
(* or up to MaxLate whole periods late, and the deltaTime it computes is   *)
(* recorded.                                                               *)
(***************************************************************************)
MaxLate == 3

FrameGaps == (1..speed) \cup {k * speed : k \in 1..MaxLate}

InitFrame ==
    /\ status = "MENU"
    /\ shownStatus = "MENU"
    /\ mode = "PVE"
    /\ winner = NoWinner
    /\ scores = [p1 |-> 0, p2 |-> 0]
    /\ players = <<>>
    /\ walkers = <<>>
    /\ inputQueue = [i \in 1..2 |-> <<>>]
    /\ isGameOver = FALSE
    /\ sinceLast = 0
    /\ newDir = NoDir
    /\ tickCount = 0
    /\ scoreChanges = 0
    /\ walkerCount \in 0..(MaxBudget \div WalkerCost)
    /\ budget = 0
    /\ enteredFrom = "none"
    /\ floodArgs = NoCall
    /\ floodResult = NoResult
    /\ arena = NoCall
    /\ deltaTime = 0

\* loop, with its local deltaTime = time - lastTimeRef.current kept.
timedLoop(dt) ==
    /\ loop(dt)
    /\ deltaTime' = IF shownStatus = "PLAYING" THEN sinceLast + dt
                    ELSE deltaTime

NextFrame ==
    \/ startGame
    \/ render
    \/ \E dt \in FrameGaps : timedLoop(dt)

SpecFrame == InitFrame /\ [][NextFrame]_vars

(***************************************************************************)
(* Properties.                                                             *)
(***************************************************************************)
\* A step that runs updateGame past its guard.
AdmittedTick == tickCount' = tickCount + 1

\* A step inside one match (not startGame).
SameMatch == ~(shownStatus # "PLAYING" /\ shownStatus' = "PLAYING")

AliveAfter == {i \in DOMAIN players' : ~players'[i].isDead}

WinnerName(i) ==
    IF i = 1 THEN "Player 1" ELSE IF mode = "PVE" THEN "CPU" ELSE "Player 2"

\* C1: after every admitted tick the terminal check matches the number of
\* agents alive: none -> GAME_OVER, DRAW, scores unchanged; one -> GAME_OVER,
\* that agent wins and only its score grows by 1; two -> still PLAYING, no
\* winner, scores unchanged.
C1_TerminalCheck ==
    [][AdmittedTick =>
        /\ Cardinality(AliveAfter) = 0 =>
             /\ status' = "GAME_OVER"
             /\ winner' = "DRAW"
             /\ scores' = scores
        /\ Cardinality(AliveAfter) = 1 =>
             \A i \in AliveAfter :
                /\ status' = "GAME_OVER"
                /\ winner' = WinnerName(i)
                /\ scores'.p1 = scores.p1 + (IF i = 1 THEN 1 ELSE 0)
                /\ scores'.p2 = scores.p2 + (IF i = 2 THEN 1 ELSE 0)
        /\ Cardinality(AliveAfter) = 2 =>
             /\ status' = "PLAYING"
             /\ winner' = NoWinner
             /\ scores' = scores]_vars

\* A match won by player 2 after player 1 had won one.
C1_Witness ==
    /\ status = "GAME_OVER"
    /\ players # <<>>
    /\ players[1].isDead /\ ~players[2].isDead
    /\ winner = WinnerName(2)
    /\ scores = [p1 |-> 1, p2 |-> 1]

\* C2: a tick after which the heads of two previously-alive agents are on the
\* same cell marks both dead, gives DRAW and changes no score.
C2_HeadToHead ==
    [][(/\ AdmittedTick
        /\ ~players[1].isDead /\ ~players[2].isDead
        /\ players'[1].head = players'[2].head)
       => /\ players'[1].isDead /\ players'[2].isDead
          /\ winner' = "DRAW"
          /\ status' = "GAME_OVER"
          /\ scores' = scores]_vars

\* Both heads on one cell that is on no trail: only the head-to-head case
\* of the collision pass kills here.
C2_Witness ==
    /\ players # <<>>
    /\ players[1].head = players[2].head
    /\ ~checkCollision(players[1].head, GridWidth, GridHeight, players)
    /\ \A k \in DOMAIN walkers : walkers[k].position # players[1].head
    /\ players[1].isDead /\ players[2].isDead
    /\ winner = "DRAW"

\* C3 as stated: every finished match has mutated the scores exactly once.
C3_ExactlyOnce ==
    isGameOver => scoreChanges = 1

\* C3 (amended): the scores change at most once per match: a frame callback
\* changes them exactly when it runs the tick that leaves exactly one agent
\* alive, a match that ends in a draw never changes them, and no later frame
\* callback of the match changes them again.
C3_AtMostOnce ==
    /\ [](/\ scoreChanges <= 1
          /\ ~isGameOver => scoreChanges = 0
          /\ isGameOver => scoreChanges = (IF winner = "DRAW" THEN 0 ELSE 1))
    /\ [][SameMatch =>
            /\ scoreChanges' # scoreChanges =>
                  /\ AdmittedTick
                  /\ Cardinality(AliveAfter) = 1
            /\ (AdmittedTick /\ Cardinality(AliveAfter) = 1) =>
                  scoreChanges' = scoreChanges + 1
            /\ isGameOver =>
                  \/ scores' = scores
                  \/ /\ shownStatus = "MENU"
                     /\ scores' = [p1 |-> 0, p2 |-> 0]
                     /\ sinceLast' = sinceLast]_vars

\* A frame callback that ran after the tick that ended the match with a winner.
C3_Witness ==
    /\ isGameOver
    /\ scoreChanges = 1
    /\ shownStatus = "PLAYING"
    /\ sinceLast = 1

InGrid(pos) == ~OutOfBounds(pos, GridWidth, GridHeight)

\* C4: every walker and every living agent's head is inside the grid, and the
\* step that moves a head outside the grid is a tick that marks that agent
\* dead.
C4_Bounds ==
    /\ [](/\ \A k \in DOMAIN walkers : InGrid(walkers[k].position)
          /\ \A i \in DOMAIN players :
                ~players[i].isDead => InGrid(players[i].head))
    /\ [][\A i \in DOMAIN players :
            (/\ SameMatch
             /\ players'[i].head # players[i].head
             /\ ~InGrid(players'[i].head))
            => /\ AdmittedTick
               /\ ~players[i].isDead
               /\ players'[i].isDead]_vars

C4_Witness ==
    \E i \in DOMAIN players :
        /\ players[i].head.x = GridWidth
        /\ players[i].isDead

\* C5: an admitted tick appends the head before the move to the trail of
\* every agent alive at its start; within a match no step removes or reorders
\* trail entries; a dead agent stays dead and keeps trail, head and direction
\* until the match is restarted.
C5_TrailMonotone ==
    [][SameMatch =>
        \A i \in DOMAIN players :
            /\ (AdmittedTick /\ ~players[i].isDead) =>
                  players'[i].trail = Append(players[i].trail, players[i].head)
            /\ ~AdmittedTick => players'[i].trail = players[i].trail
            /\ Len(players'[i].trail) >= Len(players[i].trail)
            /\ SubSeq(players'[i].trail, 1, Len(players[i].trail))
                  = players[i].trail
            /\ players[i].isDead => players'[i] = players[i]]_vars

\* A frame callback that ran with a dead agent on the board.
C5_Witness ==
    /\ shownStatus = "PLAYING"
    /\ sinceLast = 1
    /\ \E i \in DOMAIN players :
          players[i].isDead /\ Len(players[i].trail) >= 3

StartOf(i) == IF i = 1 THEN P1_START_POS ELSE P2_START_POS

\* C6 as stated: after k ticks the trail has k entries, also for the agent
\* whose run ended one cell past a wall (5 entries after 5 ticks).
C6_TrailLengthIsTicks ==
    players # <<>> =>
        \A i \in DOMAIN players :
            /\ Len(players[i].trail) = tickCount
            /\ ~InGrid(players[i].head) =>
                  /\ players[i].isDead
                  /\ Len(players[i].trail) = tickCount

\* C6 (amended): the trail is the start cell followed by the cell the agent
\* was on before each tick, oldest first, so after k ticks it has k + 1
\* entries; an agent whose run ended one cell past a wall is dead and its
\* trail has one entry more than ticks were run (6 after 5 ticks).
C6_TrailFromStart ==
    players # <<>> =>
        \A i \in DOMAIN players :
            LET t == players[i].trail
            IN  /\ Len(t) = tickCount + 1
                /\ t[1] = StartOf(i)
                /\ Len(t) >= 2 => t[2] = StartOf(i)
                /\ \A j \in 2..(Len(t) - 1) :
                      \E d \in Dirs : t[j + 1] = getNextPosition(t[j], d)
                /\ tickCount >= 1 =>
                      players[i].head =
                          getNextPosition(t[Len(t)], players[i].direction)
                /\ ~InGrid(players[i].head) =>
                      /\ players[i].isDead
                      /\ InGrid(t[Len(t)])
                      /\ Len(t) = tickCount + 1

\* Player 1 left the grid on the second or a later tick.
C6_Witness ==
    /\ players # <<>>
    /\ tickCount >= 2
    /\ players[1].isDead
    /\ ~InGrid(players[1].head)
    /\ Len(players[1].trail) = tickCount + 1

\* C7: no pending-turn queue ever holds more than 3 directions, and a turn
\* request that finds 3 queued leaves the queues unchanged.
C7_QueueBound ==
    \A id \in 1..2 :
        /\ Len(inputQueue[id]) <= 3
        /\ Len(inputQueue[id]) = 3 =>
              \A turn \in {"left", "right"} :
                  registerTurn(inputQueue, players, id, turn) = inputQueue

C7_Witness ==
    /\ shownStatus = "PLAYING"
    /\ \E id \in 1..2 : Len(inputQueue[id]) = 3

LeftOf(d) == (d + 3) % 4

\* C8 as stated: while the queue holds only the left turn from the live
\* facing d, a request never appends d.
C8_BackTurnDropped ==
    [][\A id \in 1..2 :
        (/\ players # <<>>
         /\ players' = players
         /\ inputQueue[id] = <<LeftOf(players[id].direction)>>)
        => inputQueue'[id] #
              <<LeftOf(players[id].direction), players[id].direction>>]_vars

\* C8 (amended): LEFT then RIGHT on an empty queue, no tick in between,
\* queues both turns: the queue holds (d + 3) mod 4 followed by d.  A request
\* on a queue that holds only the left turn appends d or (d + 2) mod 4.
C8_BackTurnQueued ==
    /\ [](players # <<>> =>
            \A id \in 1..2 :
                inputQueue[id] = <<>> =>
                    LET d == players[id].direction
                        q1 == registerTurn(inputQueue, players, id, "left")
                        q2 == registerTurn(q1, players, id, "right")
                    IN  /\ q1[id] = <<LeftOf(d)>>
                        /\ q2[id] = <<LeftOf(d), d>>)
    /\ [][\A id \in 1..2 :
            (/\ players # <<>>
             /\ players' = players
             /\ inputQueue[id] = <<LeftOf(players[id].direction)>>
             /\ inputQueue'[id] # inputQueue[id])
            => \/ inputQueue'[id] = <<LeftOf(players[id].direction),
                                      players[id].direction>>
               \/ inputQueue'[id] = <<LeftOf(players[id].direction),
                                      (players[id].direction + 2) % 4>>]_vars

C8_Witness ==
    /\ players # <<>>
    /\ tickCount = 0
    /\ shownStatus = "PLAYING"
    /\ \E id \in 1..2 :
          inputQueue[id] =
              <<LeftOf(players[id].direction), players[id].direction>>

\* C9: an admitted tick takes at most one direction, the oldest, from the
\* queue of each living agent, makes it the facing and keeps the rest in
\* order; no other step of a match takes anything from a queue or turns an
\* agent.
C9_OneTurnPerTick ==
    [][SameMatch =>
        \A i \in DOMAIN players :
            LET q == inputQueue[players[i].id]
                q2 == inputQueue'[players[i].id]
            IN  /\ (AdmittedTick /\ ~players[i].isDead /\ Len(q) > 0) =>
                      /\ q2 = Tail(q)
                      /\ players'[i].direction = Head(q)
                /\ (AdmittedTick /\ Len(q) = 0) => q2 = q
                /\ ~AdmittedTick =>
                      /\ players'[i] = players[i]
                      /\ Len(q2) >= Len(q)
                      /\ SubSeq(q2, 1, Len(q)) = q]_vars

\* One tick applied the first of two queued turns; the second is still queued.
C9_Witness ==
    /\ players # <<>>
    /\ tickCount = 1
    /\ ~players[1].isDead
    /\ players[1].direction = UP
    /\ inputQueue[1] = <<LEFT>>

CellFree(c, ps) ==
    /\ c.x >= 0 /\ c.x < GridWidth /\ c.y >= 0 /\ c.y < GridHeight
    /\ \A i \in DOMAIN ps :
          /\ c # ps[i].head
          /\ \A j \in DOMAIN ps[i].trail : c # ps[i].trail[j]

Candidates(d) == {d, (d + 1) % 4, (d + 3) % 4}

\* C10: when one of straight, left, right leads the AI player to a cell that
\* is in bounds, on no trail and no head, getAIMove returns such a direction,
\* whatever the shuffle.
C10_AIAvoidsDeath ==
    (newDir # NoDir /\ players # <<>>) =>
        ((\E d \in Candidates(players[2].direction) :
              CellFree(getNextPosition(players[2].head, d), players))
         => /\ newDir \in Candidates(players[2].direction)
            /\ CellFree(getNextPosition(players[2].head, newDir), players))

\* Straight ahead is lethal, a turn is not, and getAIMove turned.
C10_Witness ==
    /\ newDir # NoDir
    /\ ~CellFree(getNextPosition(players[2].head, players[2].direction),
                 players)
    /\ newDir # players[2].direction
    /\ CellFree(getNextPosition(players[2].head, newDir), players)

OnAnyTrail(c, ps) ==
    \E i \in DOMAIN ps : \E j \in DOMAIN ps[i].trail : ps[i].trail[j] = c

\* C11: an agent alive at the start of a tick whose head after the tick is
\* the position a walker has after its own move of that tick is dead after
\* the tick, wherever that cell is.
C11_HazardKills ==
    [][AdmittedTick =>
        \A i \in DOMAIN players :
            (/\ ~players[i].isDead
             /\ \E k \in DOMAIN walkers' :
                   walkers'[k].position = players'[i].head)
            => players'[i].isDead]_vars

\* Player 1 died on a walker's cell that is in the grid, on no trail and not
\* the other head.
C11_Witness ==
    /\ players # <<>>
    /\ players[1].isDead
    /\ ~players[2].isDead
    /\ InGrid(players[1].head)
    /\ ~OnAnyTrail(players[1].head, players)
    /\ players[2].head # players[1].head
    /\ \E k \in DOMAIN walkers : walkers[k].position = players[1].head

\* What initGame leaves: both agents new at their start, nothing queued, no
\* winner, the game-over flag down.
FreshMatch ==
    /\ players = << NewPlayer(1, "Player 1", P1_START_POS, RIGHT),
                    NewPlayer(2, IF mode = "PVE" THEN "CPU" ELSE "Player 2",
                              P2_START_POS, LEFT) >>
    /\ inputQueue = [i \in 1..2 |-> <<>>]
    /\ winner = NoWinner
    /\ ~isGameOver
    /\ tickCount = 0

\* C12 as stated: status only goes MENU to PLAYING, PLAYING to GAME_OVER or
\* back to MENU; PLAYING is never entered from GAME_OVER.
C12_NoDirectRematch ==
    [][status' # status =>
        /\ \/ status = "MENU" /\ status' = "PLAYING"
           \/ status = "PLAYING" /\ status' = "GAME_OVER"
           \/ status' = "MENU"
        /\ ~(status = "GAME_OVER" /\ status' = "PLAYING")]_vars

\* C12 (amended): status only goes MENU to PLAYING (start), PLAYING to
\* GAME_OVER (a tick that ends the match), GAME_OVER to MENU (menu button)
\* and GAME_OVER to PLAYING (rematch); every entry to PLAYING, the rematch
\* included, starts a fresh match.
C12_StateMachine ==
    [][status' # status =>
        \/ /\ status = "MENU" /\ status' = "PLAYING"
           /\ FreshMatch'
        \/ /\ status = "GAME_OVER" /\ status' = "PLAYING"
           /\ FreshMatch'
        \/ /\ status = "PLAYING" /\ status' = "GAME_OVER"
           /\ AdmittedTick
           /\ isGameOver'
           /\ Len(alivePlayers(players')) <= 1
        \/ /\ status = "GAME_OVER" /\ status' = "MENU"
           /\ players' = players /\ scores' = scores]_vars

\* A match that was started by REMATCH from the game-over overlay.
C12_Witness ==
    /\ status = "PLAYING"
    /\ enteredFrom = "GAME_OVER"
    /\ FreshMatch

NoScore == [p1 |-> 0, p2 |-> 0]

\* C13: a step that starts a match leaves both agents new at their start,
\* alive, the walkers respawned, both queues empty, no winner, and the score
\* tally as it was; the tally only changes by a winning tick adding one, or
\* by the mode selection of the menu setting it to 0.
C13_RestartKeepsScore ==
    [][/\ (status # "PLAYING" /\ status' = "PLAYING") =>
            /\ FreshMatch'
            /\ \A i \in DOMAIN players' :
                  /\ ~players'[i].isDead
                  /\ players'[i].head = StartOf(i)
                  /\ players'[i].direction = IF i = 1 THEN RIGHT ELSE LEFT
            /\ walkers' \in Spawns
            /\ scores' = scores
       /\ scores' # scores =>
            \/ /\ AdmittedTick
               /\ Len(alivePlayers(players')) = 1
            \/ /\ scores' = NoScore
               /\ status = "MENU" /\ status' = "MENU"
               /\ players' = players /\ walkers' = walkers
               /\ tickCount' = tickCount
       /\ mode' # mode => scores' = NoScore]_vars

\* A rematch has just started and the tally of the earlier matches is kept.
C13_Witness ==
    /\ status = "PLAYING"
    /\ enteredFrom = "GAME_OVER"
    /\ FreshMatch
    /\ scores # NoScore

FrameOrTurnRequest ==
    \/ \E dt \in 1..speed : loop(dt)
    \/ \E code \in Keys : handleKeyDown(code)

\* C14: while status is MENU or GAME_OVER, a frame callback and a key press
\* leave the agents, the walkers, both queues, the winner and the score
\* tally unchanged.
C14_NoOpOutsidePlaying ==
    [][(status \in {"MENU", "GAME_OVER"} /\ FrameOrTurnRequest) =>
        UNCHANGED <<players, walkers, inputQueue, winner, scores>>]_vars

\* C16: in a tick, every living agent's previous head is on its trail after
\* the tick, and an agent whose new head is the cell another agent had at
\* the start of the tick is dead after the tick, whether or not that other
\* agent dies in the same tick.
C16_PreDeathTrails ==
    [][AdmittedTick =>
        \A i \in DOMAIN players :
            ~players[i].isDead =>
                /\ players'[i].trail = Append(players[i].trail,
                                              players[i].head)
                /\ \A j \in DOMAIN players :
                      (j # i /\ players'[i].head = players[j].head)
                      => players'[i].isDead]_vars

\* Both agents died in one tick: player 2 away from its cell, player 1 on the
\* cell player 2 had just left.
C16_Witness ==
    /\ tickCount = 1
    /\ players[1].isDead
    /\ players[2].isDead
    /\ players[1].head # players[2].head
    /\ InGrid(players[1].head)
    /\ players[1].head = players[2].trail[Len(players[2].trail)]
    /\ \A j \in 1..(Len(players[2].trail) - 1) :
          players[2].trail[j] # players[1].head
    /\ \A j \in DOMAIN players[1].trail :
          players[1].trail[j] # players[1].head

\* C17: a tick leaves every agent facing the way it faced before the tick or
\* a quarter turn from it, never the opposite way; what getAIMove returned in
\* the tick is a candidate of player 2's facing before the tick; outside
\* ticks no facing changes during a match.
C17_NoReversal ==
    [][SameMatch =>
        /\ AdmittedTick =>
              /\ \A i \in DOMAIN players :
                    /\ players'[i].direction \in
                          Candidates(players[i].direction)
                    /\ players'[i].direction #
                          (players[i].direction + 2) % 4
              /\ newDir' # NoDir =>
                    /\ newDir' \in Candidates(players[2].direction)
                    /\ players'[2].direction = newDir'
        /\ ~AdmittedTick =>
              \A i \in DOMAIN players :
                  players'[i].direction = players[i].direction]_vars

\* Player 1, started facing RIGHT, faces LEFT after quarter turns in separate
\* ticks, and getAIMove has steered player 2.
C17_Witness ==
    /\ players # <<>>
    /\ tickCount >= 2
    /\ ~players[1].isDead
    /\ players[1].direction = LEFT
    /\ newDir # NoDir

AllLethal ==
    \A d \in Candidates(players[2].direction) :
        ~CellFree(getNextPosition(players[2].head, d), players)

\* C18: when straight, left and right all lead the AI player out of bounds,
\* onto a trail or onto a head, getAIMove returns its current facing.
C18_FallbackStraight ==
    (newDir # NoDir /\ players # <<>> /\ AllLethal)
        => newDir = players[2].direction

C18_Witness ==
    /\ newDir # NoDir
    /\ AllLethal
    /\ newDir = players[2].direction

TrailAndHeadCells(ps) ==
    {ps[i].head : i \in DOMAIN ps} \cup
    UNION {{ps[i].trail[j] : j \in DOMAIN ps[i].trail} : i \in DOMAIN ps}

\* The flood-fill count of the cell the AI player reaches by direction d, or
\* -1 when that cell is immediately lethal.
SurvivorCount(d) ==
    LET c == getNextPosition(players[2].head, d)
    IN  IF CellFree(c, players)
        THEN floodFillCount(c, GridWidth, GridHeight,
                            TrailAndHeadCells(players), FloodDepth)
        ELSE -1

\* The candidate that comes first in the shuffled order among those of the
\* largest count; count[k] belongs to the k-th declared candidate.
FirstBest(count, shuffle) ==
    LET moves == PossibleMoves(players[2].direction)
        top == CHOOSE c \in {count[1], count[2], count[3]} :
                  \A n \in 1..3 : count[n] <= c
        first == CHOOSE m \in 1..3 :
                    /\ count[shuffle[m]] = top
                    /\ \A n \in 1..(m - 1) : count[shuffle[n]] < top
    IN  moves[shuffle[first]]

\* C19: when a candidate survives, the direction getAIMove returned has the
\* largest flood-fill count of the surviving candidates, and for every
\* shuffled order getAIMove returns the first candidate of that order that
\* has the largest count.
C19_MaxFlood ==
    (newDir # NoDir /\ players # <<>> /\ ~AllLethal) =>
        LET moves == PossibleMoves(players[2].direction)
            count == << SurvivorCount(moves[1]), SurvivorCount(moves[2]),
                        SurvivorCount(moves[3]) >>
            \* getAIMove's loop input, computed once for all orders
            spaces == candidateSpaces(players[2], players, GridWidth,
                                      GridHeight)
        IN  /\ \E k \in 1..3 :
                  /\ moves[k] = newDir
                  /\ count[k] >= 0
                  /\ \A n \in 1..3 : count[n] <= count[k]
            /\ \A shuffle \in Shuffles :
                  aiChoose(players[2].direction, spaces, shuffle)
                      = FirstBest(count, shuffle)
            /\ \E shuffle \in Shuffles : newDir = FirstBest(count, shuffle)

\* Two surviving candidates share the largest count, a third survives with a
\* smaller one.
C19_Witness ==
    /\ newDir # NoDir
    /\ \E d \in Candidates(players[2].direction) :
          /\ d # newDir
          /\ SurvivorCount(d) = SurvivorCount(newDir)
    /\ \E d \in Candidates(players[2].direction) :
          /\ SurvivorCount(d) >= 0
          /\ SurvivorCount(d) < SurvivorCount(newDir)

Steps == {<<1, 0>>, <<-1, 0>>, <<0, 1>>, <<0, -1>>}

RECURSIVE Grow(_, _, _)
Grow(seen, frontier, a) ==
    LET next == {c \in {[x |-> f.x + st[1], y |-> f.y + st[2]] :
                           f \in frontier, st \in Steps} :
                    /\ c.x >= 0 /\ c.x < a.width
                    /\ c.y >= 0 /\ c.y < a.height
                    /\ c \notin a.obstacles
                    /\ c \notin seen}
    IN  IF next = {} THEN seen ELSE Grow(seen \cup next, next, a)

\* The cells reachable from the start of call a, the start included, through
\* orthogonally adjacent in-bounds cells that are no obstacles.
Reachable(a) == Grow({a.start}, {a.start}, a)

\* C20: floodFillCount started on a free in-bounds cell returns the number
\* of reachable cells or depth * 5, whichever is smaller, after that many
\* loop iterations; with the default depth the result is at most 100.
C20_FloodCount ==
    floodResult # NoResult =>
        LET R == Cardinality(Reachable(floodArgs))
        IN  /\ floodResult = Min(R, floodArgs.depth * 5)
            /\ floodResult <= floodArgs.depth * 5
            /\ floodArgs.depth = FloodDepth => floodResult <= 100

\* The default cap is reached: more than 100 cells are reachable and 100 is
\* returned.
C20_Witness ==
    /\ floodResult = 100
    /\ floodArgs.depth = FloodDepth
    /\ Cardinality(Reachable(floodArgs)) > 100

Adjacent(a, b) == Abs(a.x - b.x) + Abs(a.y - b.y) = 1

\* C21: every admitted tick adds one to each hazard's moveTimer; a timer
\* that reaches WALKER_SPEED_MOD is reset to 0 and the hazard moves to an
\* orthogonally adjacent cell inside the grid, whether or not a trail lies
\* there; otherwise its position is unchanged.  So the timer stays in
\* 0..WALKER_SPEED_MOD-1, it is 0 after exactly every WALKER_SPEED_MOD-th
\* tick, and on a 1 x 1 grid the position never changes.
C21_HazardCadence ==
    [][/\ DOMAIN walkers' = DOMAIN walkers
       /\ \A k \in DOMAIN walkers :
             LET w == walkers[k]
                 w2 == walkers'[k]
             IN  /\ w2.moveTimer = (w.moveTimer + 1) % WALKER_SPEED_MOD
                 /\ w2.moveTimer \in 0..(WALKER_SPEED_MOD - 1)
                 /\ IF w.moveTimer + 1 = WALKER_SPEED_MOD
                    THEN IF arena.width = 1 /\ arena.height = 1
                         THEN w2.position = w.position
                         ELSE /\ Adjacent(w.position, w2.position)
                              /\ ~OutOfBounds(w2.position, arena.width,
                                              arena.height)
                    ELSE w2.position = w.position]_vars

\* A hazard that has just moved onto a cell of a trail, next to one whose
\* timer has not yet come round.
C21_Witness ==
    /\ tickCount > 0
    /\ Len(walkers) = 2
    /\ walkers[1].moveTimer = 0
    /\ OnAnyTrail(walkers[1].position, players)
    /\ walkers[2].moveTimer # 0

\* What one tick can change.
TickState == <<status, winner, scores, players, walkers, inputQueue,
               isGameOver, newDir, tickCount>>

\* C22 as stated: a frame callback admits a tick only when the time since
\* the last admitted tick exceeds config.speed.
C22_GateExceeds ==
    [][\A dt \in FrameGaps :
          AdmittedTick /\ deltaTime' = sinceLast + dt /\ timedLoop(dt) =>
              sinceLast + dt > speed]_vars

\* C22: a frame callback of a PLAYING match admits a tick exactly when the
\* time since the last admitted tick is at least config.speed; when it is
\* less, the callback runs no tick, changes nothing of the match and leaves
\* the last-tick timestamp alone, so the time since the last tick grows by
\* the frame's own delay.
C22_TickGate ==
    [][\A dt \in FrameGaps :
          (/\ shownStatus = "PLAYING"
           /\ deltaTime' = sinceLast + dt
           /\ timedLoop(dt)) =>
              /\ AdmittedTick => sinceLast + dt >= speed
              /\ sinceLast + dt >= speed /\ ~isGameOver => AdmittedTick
              /\ sinceLast + dt < speed =>
                    /\ UNCHANGED TickState
                    /\ sinceLast' = sinceLast + dt]_vars

\* A frame that came too early after a tick of the running match: no tick,
\* and the time since the last tick is the whole deltaTime.
C22_Witness ==
    /\ shownStatus = "PLAYING"
    /\ ~isGameOver
    /\ tickCount > 0
    /\ deltaTime > 0
    /\ deltaTime < speed
    /\ sinceLast = deltaTime

\* C27: a frame callback of a PLAYING match that comes any number of tick
\* periods after the last admitted tick sets the last-tick timestamp to the
\* current time and, unless the match is over, runs exactly one tick: the
\* tick count and every trail grow by one, never more, whatever the delay.
C27_OneTickPerFrame ==
    [][/\ tickCount' <= tickCount + 1
       /\ \A dt \in FrameGaps :
             (/\ shownStatus = "PLAYING"
              /\ sinceLast + dt >= speed
              /\ deltaTime' = sinceLast + dt
              /\ timedLoop(dt)) =>
                 /\ sinceLast' = 0
                 /\ ~isGameOver =>
                       /\ tickCount' = tickCount + 1
                       /\ \A i \in DOMAIN players :
                             Len(players'[i].trail)
                                 = Len(players[i].trail) + 1]_vars

\* The first tick of a match, admitted by a frame that came at least two
\* tick periods after the last-tick timestamp: one tick was run.
C27_Witness ==
    /\ shownStatus = "PLAYING"
    /\ ~isGameOver
    /\ deltaTime >= 2 * speed
    /\ sinceLast = 0
    /\ tickCount = 1
    /\ \A i \in DOMAIN players : Len(players[i].trail) = 2

\* C23: from every match start on there are exactly WALKER_COUNT hazards;
\* before the first tick each is inside the grid, its x coordinate more than
\* the clearance away from the x coordinate of both start positions, so on
\* neither agent's head; and no step inside a match changes their number.
C23_HazardSpawn ==
    /\ [](players # <<>> =>
            /\ Len(walkers) = walkerCount
            /\ tickCount = 0 =>
                  \A k \in DOMAIN walkers :
                      /\ InGrid(walkers[k].position)
                      /\ Abs(walkers[k].position.x - P1_START_POS.x)
                             > SpawnClear
                      /\ Abs(walkers[k].position.x - P2_START_POS.x)
                             > SpawnClear
                      /\ \A i \in DOMAIN players :
                             players[i].head # walkers[k].position)
    /\ [][SameMatch => Len(walkers') = Len(walkers)]_vars

\* A match that has just started with its hazards in place.
C23_Witness ==
    /\ status = "PLAYING"
    /\ tickCount = 0
    /\ walkerCount > 0
    /\ Len(walkers) = walkerCount
    /\ \A i \in DOMAIN players : players[i].head = StartOf(i)

\* The cells on a trail or under a head.
Covered(ps) ==
    UNION {SeqRange(ps[i].trail) \cup {ps[i].head} : i \in DOMAIN ps}

\* C24 as stated: a match is over after at most width * height ticks, and
\* every tick an agent survives appends to its trail a cell that was on no
\* trail before the tick.
C24_EveryTickNewCell ==
    /\ [](tickCount <= GridWidth * GridHeight)
    /\ [][AdmittedTick =>
            \A i \in AliveAfter :
                /\ players'[i].trail = Append(players[i].trail,
                                              players[i].head)
                /\ ~OnAnyTrail(players[i].head, players)]_vars

\* C24: a match is over after at most width * height ticks, whatever the
\* turns, AI choices and hazard moves.  Every tick after the first that an
\* agent survives appends to its trail a cell that was on no trail (the
\* first tick appends the start cell, which the trail already holds), and
\* the head of a surviving agent is on no trail; so while both agents live
\* the trails and heads cover exactly 2 * ticks + 2 cells of the grid.
C24_MatchEnds ==
    /\ [](tickCount <= GridWidth * GridHeight)
    /\ [](players # <<>> /\ ~isGameOver =>
            /\ Cardinality(Covered(players)) = 2 * tickCount + 2
            /\ Covered(players) \subseteq Cells)
    /\ [][AdmittedTick =>
            \A i \in AliveAfter :
                /\ players'[i].trail = Append(players[i].trail,
                                              players[i].head)
                /\ ~OnAnyTrail(players'[i].head, players')
                /\ tickCount > 0 => ~OnAnyTrail(players[i].head, players)]_vars

\* A match that ended after several ticks, with at most one cell of the grid
\* left uncovered.
C24_Witness ==
    /\ isGameOver
    /\ status = "GAME_OVER"
    /\ tickCount > 2
    /\ Cardinality(Covered(players) \cap Cells) >= GridWidth * GridHeight - 1

\* C25: while the match is PLAYING and not over, both agents are alive and
\* the winner is unset; every tick starts with both agents alive, and a tick
\* that leaves an agent dead also sets GAME_OVER and ends the match.
C25_PlayingMeansAlive ==
    /\ []((status = "PLAYING" \/ shownStatus = "PLAYING") /\ ~isGameOver =>
            /\ Len(players) = 2
            /\ \A i \in DOMAIN players : ~players[i].isDead
            /\ winner = NoWinner)
    /\ [][AdmittedTick =>
            /\ \A i \in DOMAIN players : ~players[i].isDead
            /\ (\E i \in DOMAIN players' : players'[i].isDead) =>
                  /\ status' = "GAME_OVER"
                  /\ isGameOver'
                  /\ winner' # NoWinner]_vars

\* Right after the tick that killed one agent of a running match: the match
\* is over and has a winner.
C25_Witness ==
    /\ shownStatus = "PLAYING"
    /\ status = "GAME_OVER"
    /\ isGameOver
    /\ tickCount > 1
    /\ \E i, j \in DOMAIN players :
          players[i].isDead /\ ~players[j].isDead
    /\ winner \notin {NoWinner, "DRAW"}

\* Agent i ends the tick on a wall, a trail or the other agent's head.
OtherCollision(i) ==
    \/ checkCollision(players'[i].head, GridWidth, GridHeight, players')
    \/ \E j \in DOMAIN players' :
          j # i /\ players'[j].head = players'[i].head

\* C26: only the positions at the end of the tick decide a hazard
\* collision.  An agent that enters the cell a hazard has just left, while
\* that hazard enters the cell the agent has left, is alive after the tick
\* unless it hit a wall, a trail, the other agent or another hazard; and an
\* agent with no such other collision dies only with a hazard on its head.
C26_HazardSwap ==
    [][AdmittedTick =>
        \A i \in DOMAIN players :
            /\ \A k \in DOMAIN walkers :
                  (/\ walkers[k].position = players'[i].head
                   /\ walkers'[k].position = players[i].head
                   /\ ~OtherCollision(i)
                   /\ \A m \in DOMAIN walkers' :
                         walkers'[m].position # players'[i].head)
                  => ~players'[i].isDead
            /\ players'[i].isDead /\ ~OtherCollision(i) =>
                  \E k \in DOMAIN walkers' :
                      walkers'[k].position = players'[i].head]_vars

\* After the first tick, the start being in the first column: agent 1
\* stands one cell ahead of its start, alive, and the hazard, which cannot
\* spawn in the start column, has moved onto the start cell from its only
\* neighbour outside that column, the cell the agent is on now.
C26_Witness ==
    /\ status = "PLAYING"
    /\ tickCount = 1
    /\ Len(walkers) = 1
    /\ P1_START_POS.x = 0
    /\ walkers[1].position = P1_START_POS
    /\ players[1].head = getNextPosition(P1_START_POS, RIGHT)
    /\ ~players[1].isDead

====
